---- MODULE Spec2Model ----
(***************************************************************************)
(* Gemini Voice Studio: the playback graph of the App component.           *)
(*                                                                         *)
(* The App keeps React state (inputText, isGenerating, history,            *)
(* currentAudioId, isPlaying, error) and four refs (audioContextRef,       *)
(* sourceNodeRef, analyserRef, gainNodeRef).  Handlers run to completion   *)
(* on the single JavaScript thread, so each handler is one action; the     *)
(* only asynchronous steps are the settling of generateSpeech, the natural *)
(* end of a source on the audio clock, the delivery of a source's 'ended'  *)
(* event and the settling of AudioContext.resume().                        *)
(*                                                                         *)
(* Web Audio facts the model relies on: an AudioBufferSourceNode fires     *)
(* 'ended' when it stops playing for any reason (end of buffer or stop()); *)
(* stop() on a node that was started does not throw; a source node can be  *)
(* started once; resume() settles asynchronously and fails when the device *)
(* cannot be acquired; constructing the AudioContext throws when there is  *)
(* no device.  A click handler sees the state of the latest render;        *)
(* the continuation of handleGenerate sees the playAudio closure of the    *)
(* render in which the Generate button was clicked.                        *)
(***************************************************************************)
EXTENDS Integers, Sequences, FiniteSets, TLC

\* ---------------------------------------------------------------- bounds
MaxGen == 2      \* generate requests accepted in a run
MaxSrc == 3      \* source nodes created in a run

\* ------------------------------------------------------------- constants
NULL == 0        \* null of currentAudioId and of the refs

Texts == {"", " ", "hi"}
Trim(t) == IF t = " " THEN "" ELSE t

SrcIds == 1..MaxSrc

VARIABLES
  inputText,        \* useState('')
  isGenerating,     \* useState(false)
  history,          \* useState<GeneratedAudio[]>([]), newest first
  currentAudioId,   \* useState<string | null>(null)
  isPlaying,        \* useState(false)
  error,            \* useState<string | null>(null)
  audioContextRef,  \* id of the AudioContext, NULL before it exists
  analyserRef,      \* id of the context whose analyser this is, or NULL
  gainNodeRef,      \* id of the context whose gain node this is, or NULL
  sourceNodeRef,    \* id of the source node in the slot, or NULL
  sources,          \* every source node created so far
  numSrc,           \* number of createBufferSource() calls so far
  ctxState,         \* AudioContext.state: "none", "suspended", "running"
  resumePending,    \* resume() was called and has not settled
  ctxCreated,       \* number of AudioContext constructions so far
  graph,            \* edges of the fixed part of the node graph
  pending,          \* the generateSpeech call in flight
  genCount,         \* generate requests accepted so far
  frames,           \* AudioVisualizer: animation frames requested and not yet run
  vizCleanup,       \* AudioVisualizer: the current effect returned its cleanup
  wavStage,         \* export pipeline: "idle", "raw", "buffer", "file"
  wavRaw,           \* 16-bit PCM samples received from the provider
  wavBuf,           \* the decoded AudioBuffer
  wavFile           \* the bytes handleDownload wrote

vars == <<inputText, isGenerating, history, currentAudioId, isPlaying, error,
          audioContextRef, analyserRef, gainNodeRef, sourceNodeRef, sources,
          numSrc, ctxState, resumePending, ctxCreated, graph, pending,
          genCount, frames, vizCleanup, wavStage, wavRaw, wavBuf, wavFile>>

vizVars == <<frames, vizCleanup>>
wavVars == <<wavStage, wavRaw, wavBuf, wavFile>>
appVars == <<inputText, isGenerating, history, currentAudioId, isPlaying, error,
             audioContextRef, analyserRef, gainNodeRef, sourceNodeRef, sources,
             numSrc, ctxState, resumePending, ctxCreated, graph, pending,
             genCount>>

NoSource == [state |-> "none", item |-> NULL, connected |-> FALSE,
             onended |-> FALSE, prev |-> NULL, resolved |-> {}]

NoBuffer == [numberOfChannels |-> 0, length |-> 0, sampleRate |-> 0, data |-> <<>>]

NoFile == [length |-> 0, header |-> <<>>, data |-> <<>>]

NoPending == [active |-> FALSE, text |-> "", closure |-> [currentAudioId |-> NULL, isPlaying |-> FALSE]]

\* The audio part of the state as one value, so that handlers compose.
Cur == [isPlaying |-> isPlaying, currentAudioId |-> currentAudioId,
        sourceNodeRef |-> sourceNodeRef, sources |-> sources,
        numSrc |-> numSrc, audioContextRef |-> audioContextRef,
        analyserRef |-> analyserRef, gainNodeRef |-> gainNodeRef,
        ctxState |-> ctxState, resumePending |-> resumePending,
        ctxCreated |-> ctxCreated, graph |-> graph]

Commit(S) ==
  /\ isPlaying' = S.isPlaying
  /\ currentAudioId' = S.currentAudioId
  /\ sourceNodeRef' = S.sourceNodeRef
  /\ sources' = S.sources
  /\ numSrc' = S.numSrc
  /\ audioContextRef' = S.audioContextRef
  /\ analyserRef' = S.analyserRef
  /\ gainNodeRef' = S.gainNodeRef
  /\ ctxState' = S.ctxState
  /\ resumePending' = S.resumePending
  /\ ctxCreated' = S.ctxCreated
  /\ graph' = S.graph

\* The values of currentAudioId and isPlaying a playAudio closure captured.
closureOf(S) == [currentAudioId |-> S.currentAudioId, isPlaying |-> S.isPlaying]

\* ----------------------------------------------------------- getAudioContext
\* analyser.connect(gain); gain.connect(destination)
FixedGraph == {<<"analyser", "gain">>, <<"gain", "destination">>}

\* getAudioContext without the `if (!audioContextRef.current)` test.
getAudioContextAlwaysNew(S, st0) ==
  LET S1 == [S EXCEPT !.audioContextRef = S.ctxCreated + 1,
                      !.ctxCreated = S.ctxCreated + 1,
                      !.analyserRef = S.ctxCreated + 1,
                      !.gainNodeRef = S.ctxCreated + 1,
                      !.ctxState = st0,
                      !.resumePending = FALSE,
                      !.graph = FixedGraph]
  IN IF S1.ctxState = "suspended"
     THEN [S1 EXCEPT !.resumePending = TRUE]
     ELSE S1

\* getAudioContext without the "resume if suspended" statement.
getAudioContextNoResume(S, st0) ==
  IF S.audioContextRef = NULL
  THEN [S EXCEPT !.audioContextRef = S.ctxCreated + 1,
                 !.ctxCreated = S.ctxCreated + 1,
                 !.analyserRef = S.ctxCreated + 1,
                 !.gainNodeRef = S.ctxCreated + 1,
                 !.ctxState = st0,
                 !.resumePending = FALSE,
                 !.graph = FixedGraph]
  ELSE S

\* st0 is the state the platform gives a context it has just constructed.
getAudioContext(S, st0) ==
  LET S1 == IF S.audioContextRef = NULL
            THEN [S EXCEPT !.audioContextRef = S.ctxCreated + 1,
                           !.ctxCreated = S.ctxCreated + 1,
                           !.analyserRef = S.ctxCreated + 1,
                           !.gainNodeRef = S.ctxCreated + 1,
                           !.ctxState = st0,
                           !.resumePending = FALSE,
                           !.graph = FixedGraph]
            ELSE S
  IN IF S1.ctxState = "suspended"
     THEN [S1 EXCEPT !.resumePending = TRUE]
     ELSE S1

\* ----------------------------------------------------------- stopPlayback
\* source.stop(): a playing source stops and its 'ended' event is queued.
stopSource(src) ==
  IF src.state = "playing"
  THEN [src EXCEPT !.state = "stopped", !.onended = TRUE,
                   !.resolved = @ \cup {"stop"}]
  ELSE src

disconnectSource(src) == [src EXCEPT !.connected = FALSE]

\* stopPlayback that empties the slot without stopping or disconnecting the node.
stopPlaybackKeepsSource(S) ==
  [S EXCEPT !.sourceNodeRef = NULL, !.isPlaying = FALSE, !.currentAudioId = NULL]

stopPlayback(S) ==
  LET S1 == IF S.sourceNodeRef # NULL
            THEN [S EXCEPT !.sources[S.sourceNodeRef] = disconnectSource(stopSource(@)),
                           !.sourceNodeRef = NULL]
            ELSE S
  IN [S1 EXCEPT !.isPlaying = FALSE, !.currentAudioId = NULL]

\* ----------------------------------------------------------- playAudio
\* A createBufferSource that hands out the node of the previous session again.
createBufferSourceReuse(S) == IF S.numSrc > 0 THEN S.numSrc ELSE 1

\* ctx.createBufferSource(): always a node that did not exist before.
createBufferSource(S) == S.numSrc + 1

\* source.buffer = item.audioBuffer; source.connect(analyser); source.onended = ...
\* prev records the source this call found playing in the slot.
connectSource(S, item, id, prev) ==
  [S EXCEPT !.numSrc = IF id > S.numSrc THEN id ELSE S.numSrc,
            !.sources[id] = [state |-> "created", item |-> item.id,
                             connected |-> (S.analyserRef # NULL),
                             onended |-> FALSE, prev |-> prev,
                             resolved |-> {}]]

\* source.start(); sourceNodeRef.current = source; setCurrentAudioId; setIsPlaying
startSource(S, id) ==
  [S EXCEPT !.sources[id].state = "playing",
            !.sourceNodeRef = id,
            !.currentAudioId = S.sources[id].item,
            !.isPlaying = TRUE]

\* The source that is playing in the slot, if any.
playingInSlot(S) ==
  IF S.sourceNodeRef # NULL /\ S.sources[S.sourceNodeRef].state = "playing"
  THEN S.sourceNodeRef ELSE NULL

\* A playAudio without the toggle test of its first statement.
playTraceNoToggle(S, item, cl, st0) ==
  LET S1 == stopPlayback(S)
      S2 == getAudioContext(S1, st0)
      id == createBufferSource(S2)
      S3 == connectSource(S2, item, id, playingInSlot(S))
  IN <<S1, S2, S3, startSource(S3, id)>>

\* playAudio statement by statement: the states the handler goes through,
\* the last one being the state it leaves.  cl is what the closure captured.
playTrace(S, item, cl, st0) ==
  IF cl.currentAudioId = item.id /\ cl.isPlaying
  THEN <<stopPlayback(S)>>
  ELSE LET S1 == stopPlayback(S)
           S2 == getAudioContext(S1, st0)
       IN IF ~item.audioBuffer
          THEN <<S1, S2>>
          ELSE LET id == createBufferSource(S2)
                   S3 == connectSource(S2, item, id, playingInSlot(S))
               IN <<S1, S2, S3, startSource(S3, id)>>

playAudio(S, item, cl, st0) ==
  LET t == playTrace(S, item, cl, st0) IN t[Len(t)]

\* TRUE when playAudio(S, item, cl, ...) creates a source node.
createsSource(item, cl) ==
  ~(cl.currentAudioId = item.id /\ cl.isPlaying) /\ item.audioBuffer

\* ----------------------------------------------------------- source.onended
\* An onended handler that forgets to clear the playback state.
onendedKeepsState(S, id) ==
  [S EXCEPT !.sources[id].onended = FALSE,
            !.sources[id].resolved = @ \cup {"ended"}]

\* An onended handler that clears isPlaying and leaves currentAudioId.
onendedKeepsId(S, id) ==
  [S EXCEPT !.isPlaying = FALSE,
            !.sources[id].onended = FALSE,
            !.sources[id].resolved = @ \cup {"ended"}]

onended(S, id) ==
  [S EXCEPT !.isPlaying = FALSE, !.currentAudioId = NULL,
            !.sources[id].onended = FALSE,
            !.sources[id].resolved = @ \cup {"ended"}]

\* ----------------------------------------------------------- AudioVisualizer
\* animationRef.current = requestAnimationFrame(draw): the new frame is the
\* one animationRef names; playing is the isPlaying the draw closure captured.
requestAnimationFrame(fr, playing) ==
  Append([k \in 1..Len(fr) |-> [fr[k] EXCEPT !.ref = FALSE]],
         [playing |-> playing, ref |-> TRUE])

\* draw(): sample the analyser, paint, then decide whether to go on.
draw(fr, playing, ctxSt) ==
  IF playing
  THEN requestAnimationFrame(fr, playing)
  ELSE IF ctxSt \in {"closed", "suspended"}
       THEN fr
       ELSE requestAnimationFrame(fr, playing)

\* A cleanup that cancels nothing.
cancelNothing(fr) == fr

\* The cleanup of the effect: cancelAnimationFrame(animationRef.current).
cancelAnimationFrame(fr) == SelectSeq(fr, LAMBDA f : ~f.ref)

\* The effect body, run when analyser or isPlaying changed: the cleanup of
\* the previous effect first, if it returned one.
runEffect(fr, cleanup, analyser, playing, ctxSt) ==
  LET fr1 == IF cleanup THEN cancelAnimationFrame(fr) ELSE fr
  IN IF analyser = NULL
     THEN [frames |-> fr1, cleanup |-> FALSE]
     ELSE [frames |-> draw(fr1, playing, ctxSt), cleanup |-> TRUE]

\* The render that follows a handler: the effect runs again when one of its
\* dependencies [analyser, isPlaying] differs from the previous render.
Render ==
  IF <<analyserRef', isPlaying'>> = <<analyserRef, isPlaying>>
  THEN UNCHANGED vizVars
  ELSE LET V == runEffect(frames, vizCleanup, analyserRef', isPlaying', ctxState')
       IN /\ frames' = V.frames
          /\ vizCleanup' = V.cleanup

\* ----------------------------------------------------------- setHistory
\* A setHistory that keeps only the new record.
replaceHistory(newItem, prev) == <<newItem>>

\* setHistory(prev => [newItem, ...prev])
prependHistory(newItem, prev) == <<newItem>> \o prev

\* =================================================== decode and WAV export
MaxChan == 2     \* channels of a buffer handed to handleDownload
MaxLen == 46     \* samples per channel of such a buffer

\* A sample is the rational num/den, den > 0.
Rat(n, d) == [num |-> n, den |-> d]

\* x|0 for a quotient a/b, b > 0: truncation towards zero.
TruncDiv(a, b) == IF a >= 0 THEN a \div b ELSE -((-a) \div b)

\* decodeAudioData(rawBytes, ctx, 24000, 1): each 16-bit sample divided by
\* 32768, one channel.
decodeSample(k) == Rat(k, 32768)

decodeAudioData(raw) ==
  [numberOfChannels |-> 1, length |-> Len(raw), sampleRate |-> 24000,
   data |-> <<[p \in 1..Len(raw) |-> decodeSample(raw[p])]>>]

\* Math.max(-1, Math.min(1, x))
clampSample(x) ==
  IF x.num > x.den THEN Rat(1, 1)
  ELSE IF x.num < -x.den THEN Rat(-1, 1)
  ELSE x

\* sample = clamp; sample = (0.5 + sample < 0 ? sample * 32768 : sample * 32767)|0
\* The test is (0.5 + sample) < 0.
encodeSample(x) ==
  LET c == clampSample(x)
  IN IF 2 * c.num + c.den < 0
     THEN TruncDiv(c.num * 32768, c.den)
     ELSE TruncDiv(c.num * 32767, c.den)

\* view.setUint16(pos, data, true); pos += 2
setUint16(w, data) ==
  [pos |-> w.pos + 2,
   header |-> Append(w.header, [at |-> w.pos, size |-> 2, value |-> data % 65536])]

\* Every value written here is in 0..2^31-1 within the bounds, so the 32-bit
\* wrap of setUint32 never applies.
setUint32(w, data) ==
  [pos |-> w.pos + 4,
   header |-> Append(w.header, [at |-> w.pos, size |-> 4, value |-> data])]

\* A length that counts one byte per sample.
wavLengthOneByte(buffer) == buffer.length * buffer.numberOfChannels + 44

\* const length = buffer.length * numOfChan * 2 + 44
wavLength(buffer) == buffer.length * buffer.numberOfChannels * 2 + 44

\* The thirteen header writes, in order; pos is shared with the data loop.
writeHeader(buffer, length) ==
  LET numOfChan == buffer.numberOfChannels
      w0 == [pos |-> 0, header |-> <<>>]
      w1 == setUint32(w0, 1179011410)                    \* "RIFF"
      w2 == setUint32(w1, length - 8)
      w3 == setUint32(w2, 1163280727)                    \* "WAVE"
      w4 == setUint32(w3, 544501094)                     \* "fmt "
      w5 == setUint32(w4, 16)
      w6 == setUint16(w5, 1)
      w7 == setUint16(w6, numOfChan)
      w8 == setUint32(w7, buffer.sampleRate)
      w9 == setUint32(w8, buffer.sampleRate * 2 * numOfChan)
      w10 == setUint16(w9, numOfChan * 2)
      w11 == setUint16(w10, 16)
      w12 == setUint32(w11, 1635017060)                  \* "data"
  IN setUint32(w12, length - w12.pos - 4)

\* One pass of the while loop body: for each channel i,
\* view.setInt16(44 + offset, convert(channels[i][pos])); offset += 2.
\* data[j] is the 16-bit value at byte 44 + 2*(j-1) of the file.
writeFrame(buffer, pos, offset, data) ==
  [j \in 1..Len(data) |->
     IF j - 1 >= offset \div 2 /\ j - 1 < offset \div 2 + buffer.numberOfChannels
     THEN encodeSample(buffer.data[j - offset \div 2][pos + 1])
     ELSE data[j]]

\* while (pos < buffer.length) { ...; pos++ }
RECURSIVE writeData(_, _, _, _)
writeData(buffer, pos, offset, data) ==
  IF pos < buffer.length
  THEN writeData(buffer, pos + 1, offset + 2 * buffer.numberOfChannels,
                 writeFrame(buffer, pos, offset, data))
  ELSE data

\* handleDownload from `const buffer` to the Blob: the ArrayBuffer starts as
\* zeros; the data loop goes on from the pos the header writers left.
encodeWav(buffer) ==
  LET length == wavLength(buffer)
      w == writeHeader(buffer, length)
      zeros == [j \in 1..((length - 44) \div 2) |-> 0]
  IN [length |-> length, header |-> w.header,
      data |-> writeData(buffer, w.pos, 0, zeros)]

\* ------------------------------------------------ inputs of the pipeline
SampleList ==
  <<Rat(0, 1), Rat(1, 1), Rat(-1, 1), Rat(-1, 2), Rat(1, 2), Rat(-1, 4),
    Rat(3, 2), Rat(-3, 2), Rat(1, 3), Rat(-16385, 32768)>>

PcmList == <<0, 1, -1, 2, 16384, -16384, -16385, 32767, -32768>>

Cycle(list, k) == list[(k % Len(list)) + 1]

\* Buffers of every shape within the bounds, all zeros (o = -1) or filled
\* from SampleList frame by frame, channel by channel, starting at offset o.
TestBuffer(nc, len, o) ==
  [numberOfChannels |-> nc, length |-> len, sampleRate |-> 24000,
   data |-> [c \in 1..nc |-> [p \in 1..len |->
               IF o < 0 THEN Rat(0, 1)
               ELSE Cycle(SampleList, o + (p - 1) * nc + (c - 1))]]]

TestBuffers ==
  {TestBuffer(nc, len, o) : nc \in 1..MaxChan, len \in 0..MaxLen,
                            o \in -1..(Len(SampleList) - 1)}

TestRaw(len, o) == [p \in 1..len |-> Cycle(PcmList, o + p - 1)]

TestRaws == {TestRaw(len, o) : len \in 1..MaxLen, o \in 0..(Len(PcmList) - 1)}

\* ================================================================ actions
Init ==
  /\ inputText = ""
  /\ isGenerating = FALSE
  /\ history = <<>>
  /\ currentAudioId = NULL
  /\ isPlaying = FALSE
  /\ error = "null"
  /\ audioContextRef = NULL
  /\ analyserRef = NULL
  /\ gainNodeRef = NULL
  /\ sourceNodeRef = NULL
  /\ sources = [s \in SrcIds |-> NoSource]
  /\ numSrc = 0
  /\ ctxState = "none"
  /\ resumePending = FALSE
  /\ ctxCreated = 0
  /\ graph = {}
  /\ pending = NoPending
  /\ genCount = 0
  /\ frames = <<>>
  /\ vizCleanup = FALSE
  /\ wavStage = "idle"
  /\ wavRaw = <<>>
  /\ wavBuf = NoBuffer
  /\ wavFile = NoFile

\* textarea onChange; the textarea is disabled while generating.
SetInputText(t) ==
  /\ ~isGenerating
  /\ t # inputText
  /\ inputText' = t
  /\ UNCHANGED <<isGenerating, history, currentAudioId, isPlaying, error,
                 audioContextRef, analyserRef, gainNodeRef, sourceNodeRef,
                 sources, numSrc, ctxState, resumePending, ctxCreated, graph,
                 pending, genCount>>
  /\ UNCHANGED vizVars
  /\ UNCHANGED wavVars

\* A handleGenerate that a click reaches although a request is outstanding.
HandleGenerateWhileGenerating(st0) ==
  /\ Trim(inputText) # ""
  /\ genCount < MaxGen
  /\ error' = "null"
  /\ isGenerating' = TRUE
  /\ Commit(getAudioContext(stopPlayback(Cur), st0))
  /\ pending' = [active |-> TRUE, text |-> inputText, closure |-> closureOf(Cur)]
  /\ genCount' = genCount + 1
  /\ UNCHANGED <<inputText, history>>
  /\ Render
  /\ UNCHANGED wavVars

\* Generate button click: handleGenerate up to its await.
HandleGenerate(st0) ==
  /\ ~isGenerating                 \* button disabled
  /\ Trim(inputText) # ""          \* button disabled, and the handler's own guard
  /\ genCount < MaxGen
  /\ error' = "null"
  /\ isGenerating' = TRUE
  /\ Commit(getAudioContext(stopPlayback(Cur), st0))
  /\ pending' = [active |-> TRUE, text |-> inputText, closure |-> closureOf(Cur)]
  /\ genCount' = genCount + 1
  /\ UNCHANGED <<inputText, history>>
  /\ Render
  /\ UNCHANGED wavVars

\* Generate button click when the AudioContext cannot be constructed:
\* getAudioContext throws inside the try block, so the catch and finally
\* blocks run in the same handler and no request is sent.
HandleGenerateNoDevice ==
  /\ ~isGenerating
  /\ Trim(inputText) # ""
  /\ audioContextRef = NULL
  /\ error' = "failed"
  /\ isGenerating' = FALSE
  /\ Commit(stopPlayback(Cur))
  /\ UNCHANGED <<inputText, history, pending, genCount>>
  /\ Render
  /\ UNCHANGED wavVars

\* A completion that files the record and does not play it.
GenerateResolveNoAutoPlay ==
  /\ pending.active
  /\ numSrc < MaxSrc
  /\ history' = prependHistory([id |-> genCount, text |-> pending.text, audioBuffer |-> TRUE], history)
  /\ Commit(stopPlayback(Cur))
  /\ isGenerating' = FALSE
  /\ pending' = NoPending
  /\ UNCHANGED <<inputText, error, genCount>>
  /\ Render
  /\ UNCHANGED wavVars

\* generateSpeech resolved: the rest of the try block and the finally block.
GenerateResolve ==
  /\ pending.active
  /\ numSrc < MaxSrc
  /\ LET newItem == [id |-> genCount, text |-> pending.text, audioBuffer |-> TRUE]
     IN /\ history' = prependHistory(newItem, history)
        /\ Commit(playAudio(Cur, newItem, pending.closure, "running"))
  /\ isGenerating' = FALSE
  /\ pending' = NoPending
  /\ UNCHANGED <<inputText, error, genCount>>
  /\ Render
  /\ UNCHANGED wavVars

\* A failure path that still files a record, with no buffer.
GenerateRejectAddsRecord ==
  /\ pending.active
  /\ error' = "failed"
  /\ isGenerating' = FALSE
  /\ pending' = NoPending
  /\ history' = prependHistory([id |-> genCount, text |-> pending.text, audioBuffer |-> FALSE], history)
  /\ UNCHANGED <<inputText, currentAudioId, isPlaying,
                 audioContextRef, analyserRef, gainNodeRef, sourceNodeRef,
                 sources, numSrc, ctxState, resumePending, ctxCreated, graph,
                 genCount>>
  /\ UNCHANGED vizVars
  /\ UNCHANGED wavVars

\* generateSpeech rejected: the catch block and the finally block.
GenerateReject ==
  /\ pending.active
  /\ error' = "failed"
  /\ isGenerating' = FALSE
  /\ pending' = NoPending
  /\ UNCHANGED <<inputText, history, currentAudioId, isPlaying,
                 audioContextRef, analyserRef, gainNodeRef, sourceNodeRef,
                 sources, numSrc, ctxState, resumePending, ctxCreated, graph,
                 genCount>>
  /\ UNCHANGED vizVars
  /\ UNCHANGED wavVars

\* Play button of a history row: onClick={() => playAudio(item)}.
ClickPlay(i) ==
  /\ i \in 1..Len(history)
  /\ createsSource(history[i], closureOf(Cur)) => numSrc < MaxSrc
  /\ Commit(playAudio(Cur, history[i], closureOf(Cur), "running"))
  /\ UNCHANGED <<inputText, isGenerating, history, error, pending, genCount>>
  /\ Render
  /\ UNCHANGED wavVars

\* The audio clock: the playing source reaches the end of its buffer.
SourceEnds(s) ==
  /\ sources[s].state = "playing"
  /\ ctxState = "running"
  /\ sources' = [sources EXCEPT ![s].state = "ended", ![s].onended = TRUE]
  /\ UNCHANGED <<inputText, isGenerating, history, currentAudioId, isPlaying,
                 error, audioContextRef, analyserRef, gainNodeRef,
                 sourceNodeRef, numSrc, ctxState, resumePending, ctxCreated,
                 graph, pending, genCount>>
  /\ UNCHANGED vizVars
  /\ UNCHANGED wavVars

\* Delivery of the 'ended' event of source s to its onended handler.
OnEnded(s) ==
  /\ sources[s].onended
  /\ ctxState = "running"         \* the rendering thread queues the event
  /\ Commit(onended(Cur, s))
  /\ UNCHANGED <<inputText, isGenerating, history, error, pending, genCount>>
  /\ Render
  /\ UNCHANGED wavVars

\* The promise of audioContext.resume() settles.
ResumeDone ==
  /\ resumePending
  /\ ctxState' = "running"
  /\ resumePending' = FALSE
  /\ UNCHANGED <<inputText, isGenerating, history, currentAudioId, isPlaying,
                 error, audioContextRef, analyserRef, gainNodeRef,
                 sourceNodeRef, sources, numSrc, ctxCreated, graph, pending,
                 genCount>>
  /\ UNCHANGED vizVars
  /\ UNCHANGED wavVars

\* The promise of audioContext.resume() is rejected: the device stays suspended.
ResumeFail ==
  /\ resumePending
  /\ ctxState = "suspended"
  /\ resumePending' = FALSE
  /\ UNCHANGED <<inputText, isGenerating, history, currentAudioId, isPlaying,
                 error, audioContextRef, analyserRef, gainNodeRef,
                 sourceNodeRef, sources, numSrc, ctxState, ctxCreated, graph,
                 pending, genCount>>
  /\ UNCHANGED vizVars
  /\ UNCHANGED wavVars

\* Download button of a history row: handleDownload(item) builds the file
\* from the record's buffer (encodeWav), hands it to the browser through a
\* temporary link and keeps nothing: no state of the App changes.
Download(i) ==
  /\ i \in 1..Len(history)
  /\ history[i].audioBuffer
  /\ UNCHANGED vars

\* The browser runs the oldest requested animation frame: draw() with the
\* isPlaying its closure captured and the state the context has now.
Tick ==
  /\ frames # <<>>
  /\ frames' = draw(Tail(frames), Head(frames).playing, ctxState)
  /\ UNCHANGED vizCleanup
  /\ UNCHANGED appVars
  /\ UNCHANGED wavVars

Next ==
  \/ \E t \in Texts : SetInputText(t)
  \/ \E st0 \in {"suspended", "running"} : HandleGenerate(st0)
  \/ HandleGenerateNoDevice
  \/ GenerateResolve
  \/ GenerateReject
  \/ \E i \in 1..MaxGen : ClickPlay(i)
  \/ \E s \in SrcIds : SourceEnds(s)
  \/ \E s \in SrcIds : OnEnded(s)
  \/ ResumeDone
  \/ ResumeFail
  \/ \E i \in 1..MaxGen : Download(i)
  \/ Tick

Spec == Init /\ [][Next]_vars

\* The event loop does not leave queued 'ended' events undelivered for ever.
FairSpec == Spec /\ WF_vars(\E s \in SrcIds : OnEnded(s))

\* The provider call does not stay unsettled for ever: its promise resolves
\* or rejects.
GenFairSpec == Spec /\ WF_vars(GenerateResolve \/ GenerateReject)

\* ------------------------------------------- the export pipeline alone
\* The App stays in its initial state; the pipeline starts from PCM samples
\* of the provider or from a buffer.
WavInit ==
  /\ inputText = ""
  /\ isGenerating = FALSE
  /\ history = <<>>
  /\ currentAudioId = NULL
  /\ isPlaying = FALSE
  /\ error = "null"
  /\ audioContextRef = NULL
  /\ analyserRef = NULL
  /\ gainNodeRef = NULL
  /\ sourceNodeRef = NULL
  /\ sources = [s \in SrcIds |-> NoSource]
  /\ numSrc = 0
  /\ ctxState = "none"
  /\ resumePending = FALSE
  /\ ctxCreated = 0
  /\ graph = {}
  /\ pending = NoPending
  /\ genCount = 0
  /\ frames = <<>>
  /\ vizCleanup = FALSE
  /\ wavFile = NoFile
  /\ \/ wavStage = "raw" /\ wavRaw \in TestRaws /\ wavBuf = NoBuffer
     \/ wavStage = "buffer" /\ wavRaw = <<>> /\ wavBuf \in TestBuffers

\* generateSpeech: rawBytes decoded into the record's AudioBuffer.
WavDecode ==
  /\ wavStage = "raw"
  /\ wavBuf' = decodeAudioData(wavRaw)
  /\ wavStage' = "buffer"
  /\ UNCHANGED <<wavRaw, wavFile>>
  /\ UNCHANGED appVars
  /\ UNCHANGED vizVars

\* handleDownload(item) on the buffer; the file handed to the browser is kept
\* in wavFile.
WavDownload ==
  /\ wavStage = "buffer"
  /\ wavFile' = encodeWav(wavBuf)
  /\ wavStage' = "file"
  /\ UNCHANGED <<wavRaw, wavBuf>>
  /\ UNCHANGED appVars
  /\ UNCHANGED vizVars

WavNext == WavDecode \/ WavDownload

WavSpec == WavInit /\ [][WavNext]_vars

\* ================================================================= claims
Routed(S) == {s \in SrcIds : S.sources[s].connected}
Started(S) == {s \in SrcIds : S.sources[s].state = "playing"}

AtMostOneRouted(S) ==
  /\ Cardinality(Routed(S)) <= 1
  /\ Cardinality(Started(S)) <= 1
  /\ Started(S) \subseteq Routed(S)

AllRouted(t) == \A k \in 1..Len(t) : AtMostOneRouted(t[k])

\* C1: in every reachable state, and in every state a playAudio, a
\* stopPlayback or the settling of a generate request goes through from it,
\* at most one source node is connected to the analyser and at most one is
\* started; whatever is started or connected is the node in the slot.
C1_AtMostOneSourceRouted ==
  /\ AtMostOneRouted(Cur)
  /\ Routed(Cur) \cup Started(Cur) \subseteq {sourceNodeRef}
  /\ AtMostOneRouted(stopPlayback(Cur))
  /\ numSrc < MaxSrc =>
       /\ \A i \in 1..Len(history) :
            AllRouted(playTrace(Cur, history[i], closureOf(Cur), "running"))
       /\ pending.active =>
            AllRouted(playTrace(Cur, [id |-> genCount, text |-> pending.text, audioBuffer |-> TRUE],
                                pending.closure, "running"))

\* A source was started while another one was playing, and is playing now.
C1_Witness ==
  \E s \in SrcIds : /\ sourceNodeRef = s
                    /\ sources[s].state = "playing"
                    /\ sources[s].connected
                    /\ sources[s].prev # NULL
                    /\ sources[sources[s].prev].state = "stopped"
                    /\ ~sources[sources[s].prev].connected

\* C2: after start(A) immediately followed by start(B), A and B different
\* records: as long as B's source is in the slot and playing (it has not
\* ended, was not stopped and was not superseded), B's is the one Playing
\* session and the app state says isPlaying with currentAudioId = B.id.
C2_SecondStartStaysPlaying ==
  \A s \in SrcIds :
    ( /\ sourceNodeRef = s
      /\ sources[s].state = "playing"
      /\ sources[s].prev # NULL
      /\ sources[sources[s].prev].item # sources[s].item )
    => /\ Started(Cur) = {s}
       /\ isPlaying
       /\ currentAudioId = sources[s].item

\* C3: the 'ended' callback of a source that is not the active one, delivered
\* while another session's source is playing in the slot, leaves isPlaying,
\* currentAudioId and the slot as they were.
C3_StaleEndedIsNoOp ==
  \A s \in SrcIds :
    ( /\ sources[s].onended
      /\ sourceNodeRef # s
      /\ playingInSlot(Cur) # NULL )
    => LET S1 == onended(Cur, s)
       IN /\ S1.isPlaying = isPlaying
          /\ S1.currentAudioId = currentAudioId
          /\ S1.sourceNodeRef = sourceNodeRef

\* C4: no session is moved to Stopped both by an explicit stop or supersede
\* of its playing source and by its 'ended' callback.
C4_ResolvedOnce ==
  \A s \in SrcIds : sources[s].resolved # {"stop", "ended"}

\* C5: once the source in the slot has reached its natural end, the app
\* state eventually has isPlaying false and currentAudioId null.
C5_NaturalEndStops ==
  ( /\ sourceNodeRef # NULL
    /\ sources[sourceNodeRef].state = "ended"
    /\ sources[sourceNodeRef].onended )
    ~> (~isPlaying /\ currentAudioId = NULL)

\* The source in the slot ended naturally and its callback has run.
C5_Witness ==
  \E s \in SrcIds : /\ sourceNodeRef = s
                    /\ sources[s].state = "ended"
                    /\ ~sources[s].onended
                    /\ sources[s].resolved = {"ended"}
                    /\ ~isPlaying
                    /\ currentAudioId = NULL

\* The record is the active one as the app state has it.
Playing(S, x) == S.isPlaying /\ S.currentAudioId = x.id

toggle(S, x) == playAudio(S, x, closureOf(S), "running")

\* C6: a toggle on the active record is a stopPlayback, a toggle on any other
\* record leaves that record Playing on a started source; and whenever the
\* source of record x is the one playing, a toggle on x leaves no source
\* playing.
C6_ToggleStopsPlayingRecord ==
  \A i \in 1..Len(history) :
    numSrc < MaxSrc =>
      LET x == history[i]
          S1 == toggle(Cur, x)
      IN /\ Playing(Cur, x) => S1 = stopPlayback(Cur)
         /\ ~Playing(Cur, x) =>
              /\ Playing(S1, x)
              /\ Started(S1) = {S1.sourceNodeRef}
              /\ S1.sources[S1.sourceNodeRef].item = x.id
         /\ ( /\ playingInSlot(Cur) # NULL
              /\ sources[playingInSlot(Cur)].item = x.id )
            => Started(S1) = {}

\* C7: two toggles in a row on the same record leave the record Playing if
\* and only if it was Playing before them.
C7_DoubleToggleRestores ==
  \A i \in 1..Len(history) :
    numSrc + 2 <= MaxSrc =>
      LET x == history[i]
      IN Playing(toggle(toggle(Cur, x), x), x) = Playing(Cur, x)

\* A record playing on a source that was started into an empty slot after an
\* earlier source of the same record was stopped: stop, then start again.
C7_Witness ==
  \E s, t \in SrcIds :
    /\ s < t
    /\ sources[s].item = sources[t].item
    /\ sources[s].state = "stopped"
    /\ sourceNodeRef = t
    /\ sources[t].state = "playing"
    /\ sources[t].prev = NULL
    /\ isPlaying
    /\ currentAudioId = sources[t].item

\* C8 as written: stopPlayback on a source that already ended leaves the
\* state (slot, isPlaying, currentAudioId, connections) as it was.
C8_StopOnEndedSourceLeavesState ==
  (sourceNodeRef # NULL /\ sources[sourceNodeRef].state = "ended")
    => stopPlayback(Cur) = Cur

\* C8 amended: stopPlayback always ends with the slot empty, isPlaying false,
\* currentAudioId null and no source started or connected; with an empty slot
\* it changes nothing; with an ended source in the slot it releases that
\* source and changes no other source; twice is the same as once.
C8_StopIdempotent ==
  LET S1 == stopPlayback(Cur)
  IN /\ S1.sourceNodeRef = NULL
     /\ ~S1.isPlaying
     /\ S1.currentAudioId = NULL
     /\ Started(S1) = {}
     /\ Routed(S1) = {}
     /\ sourceNodeRef = NULL => S1 = Cur
     /\ (sourceNodeRef # NULL /\ sources[sourceNodeRef].state = "ended") =>
          S1.sources = [sources EXCEPT ![sourceNodeRef].connected = FALSE]
     /\ stopPlayback(S1) = S1

\* stopPlayback has run on a playing source: the slot is empty and the source
\* is stopped and disconnected.
C8_Witness ==
  /\ sourceNodeRef = NULL
  /\ ~isPlaying
  /\ currentAudioId = NULL
  /\ \E s \in SrcIds : /\ sources[s].state = "stopped"
                       /\ ~sources[s].connected
                       /\ "stop" \in sources[s].resolved

\* C9: a source that was stopped or has ended keeps that state and is not
\* connected again, and the only source that becomes playing in a step is
\* one that did not exist before the step.
C9_StoppedIsTerminal ==
  [][\A s \in SrcIds :
       /\ sources[s].state \in {"stopped", "ended"} =>
            /\ sources'[s].state = sources[s].state
            /\ sources'[s].connected => sources[s].connected
            /\ sources'[s].item = sources[s].item
       /\ (sources[s].state # "playing" /\ sources'[s].state = "playing") =>
            /\ sources[s].state = "none"
            /\ s = numSrc + 1
            /\ numSrc' = s]_vars

\* A second session was started for a record whose earlier source is stopped.
C9_Witness ==
  \E s, t \in SrcIds :
    /\ s < t
    /\ sources[s].item = sources[t].item
    /\ sources[s].state \in {"stopped", "ended"}
    /\ sources[t].state = "playing"
    /\ sourceNodeRef = t

\* C10: no context exists until the first generate request is accepted; at
\* most one context is ever constructed; once it exists, the context, the
\* analyser, the gain node and their connections never change, while the
\* source slot may.
C10_LazySingletonContext ==
  /\ [](/\ ctxCreated <= 1
        /\ (audioContextRef = NULL) <=> (genCount = 0)
        /\ audioContextRef = NULL =>
             /\ ctxCreated = 0 /\ analyserRef = NULL /\ gainNodeRef = NULL
             /\ graph = {} /\ numSrc = 0
        /\ audioContextRef # NULL =>
             /\ analyserRef = audioContextRef /\ gainNodeRef = audioContextRef
             /\ graph = FixedGraph)
  /\ [][audioContextRef # NULL =>
          UNCHANGED <<audioContextRef, analyserRef, gainNodeRef, graph, ctxCreated>>]_vars

\* The context exists and a second session's source has replaced the first.
C10_Witness ==
  /\ audioContextRef # NULL
  /\ ctxCreated = 1
  /\ numSrc >= 2
  /\ genCount >= 2
  /\ sourceNodeRef = numSrc

\* C11 as written: no source is playing on a device that is still suspended.
C11_NeverStartedSuspended ==
  \A s \in SrcIds : sources[s].state = "playing" => ctxState = "running"

ResumeRequested(t) ==
  \A k \in 2..Len(t) : t[k].ctxState = "suspended" => t[k].resumePending

\* C11 amended: in every playAudio that goes on to start a source, once
\* getAudioContext has returned, a device that is suspended has a resume
\* request pending: at the connect, at the start and when the handler
\* returns.
C11_ResumeRequestedBeforeStart ==
  numSrc < MaxSrc =>
    /\ \A i \in 1..Len(history) :
         ResumeRequested(playTrace(Cur, history[i], closureOf(Cur), "running"))
    /\ pending.active =>
         ResumeRequested(playTrace(Cur, [id |-> genCount, text |-> pending.text, audioBuffer |-> TRUE],
                                   pending.closure, "running"))

\* A source was started on a suspended device whose resume is still pending.
C11_Witness ==
  \E s \in SrcIds : /\ sources[s].state = "playing"
                    /\ sourceNodeRef = s
                    /\ ctxState = "suspended"
                    /\ resumePending

Idle ==
  /\ Routed(Cur) = {}
  /\ sourceNodeRef = NULL
  /\ ~isPlaying
  /\ currentAudioId = NULL
  /\ ~isGenerating

\* C13: once the device could not be created (the generate attempt failed
\* with no context) or could not be resumed (the resume request failed and
\* no generate request is in flight any more), the system is Idle.
C13_DeviceFailureLeavesIdle ==
  ( \/ (audioContextRef = NULL /\ error = "failed")
    \/ ( /\ audioContextRef # NULL
         /\ ctxState = "suspended"
         /\ ~resumePending
         /\ ~pending.active ) )
  => Idle

\* C14: the step that settles a generate request as failed leaves the
\* history, the sources, the slot and the playback state as they were, sets
\* the error message, accepts no new request and clears isGenerating.
C14_FailedGenerationNoRecord ==
  [][(pending.active /\ ~pending'.active /\ error' # "null") =>
       /\ history' = history
       /\ error' = "failed"
       /\ ~isGenerating'
       /\ genCount' = genCount
       /\ UNCHANGED <<sources, numSrc, sourceNodeRef, isPlaying, currentAudioId>>]_vars

\* A request has failed: fewer records than accepted requests, error shown.
C14_Witness ==
  /\ error = "failed"
  /\ ~isGenerating
  /\ ~pending.active
  /\ genCount > 0
  /\ Len(history) < genCount

Ids(h) == {h[k].id : k \in 1..Len(h)}

\* C15: every step leaves the history as it was or puts exactly one record,
\* with an id no record had, in front of the unchanged old list.
C15_HistoryAppendOnly ==
  [][\/ history' = history
     \/ /\ Len(history') = Len(history) + 1
        /\ Tail(history') = history
        /\ Head(history').id \notin Ids(history)]_vars

\* Two records, the newer one first; the older one has been played again
\* after the newer one was added.
C15_Witness ==
  /\ Len(history) = 2
  /\ history[1].id = 2
  /\ history[2].id = 1
  /\ \E s \in SrcIds : sources[s].item = 1 /\ sources[s].state = "playing" /\ s >= 3

\* C20: isPlaying is true exactly when currentAudioId is not null.
C20_PlayingIffCurrentId ==
  isPlaying <=> (currentAudioId # NULL)

\* A record is playing after the 'ended' handler of an earlier session ran.
C20_Witness ==
  /\ isPlaying
  /\ currentAudioId # NULL
  /\ \E s \in SrcIds : "ended" \in sources[s].resolved /\ s # sourceNodeRef

\* C12: whenever isPlaying is false, no animation frame of the visualizer
\* is requested: the loop is cancelled and the analyser is not sampled again.
C12_LoopOnlyWhilePlaying ==
  ~isPlaying => frames = <<>>

HeaderValue(file, at) ==
  LET ks == {k \in 1..Len(file.header) : file.header[k].at = at}
  IN IF ks = {} THEN -1 ELSE file.header[CHOOSE k \in ks : TRUE].value

\* C16: the file of a buffer of sampleCount samples in channelCount channels
\* is 44 + sampleCount*channelCount*2 bytes long, its RIFF length field (at
\* byte 4) is that minus 8 and its data chunk length field (at byte 40) is
\* sampleCount*channelCount*2; the header is 44 bytes.
C16_WavLengths ==
  wavStage = "file" =>
    LET n == wavBuf.length * wavBuf.numberOfChannels * 2
    IN /\ wavFile.length = 44 + n
       /\ HeaderValue(wavFile, 4) = wavFile.length - 8
       /\ HeaderValue(wavFile, 40) = n
       /\ Len(wavFile.data) * 2 = n
       /\ Len(wavFile.header) = 13
       /\ wavFile.header[13].at + wavFile.header[13].size = 44
       /\ HeaderValue(wavFile, 28) = wavBuf.sampleRate * wavBuf.numberOfChannels * 2

\* Two channels of four samples: 60 bytes, a 16-byte data chunk.
C16_Witness ==
  /\ wavStage = "file"
  /\ wavBuf.numberOfChannels = 2
  /\ wavBuf.length = 4
  /\ wavFile.length = 60
  /\ HeaderValue(wavFile, 40) = 16
  /\ HeaderValue(wavFile, 4) = 52

ClaimedSample(x) ==
  LET c == clampSample(x)
  IN IF c.num < 0 THEN TruncDiv(c.num * 32768, c.den)
     ELSE TruncDiv(c.num * 32767, c.den)

\* C18: the file holds, frame by frame and within a frame channel by
\* channel, the claimed conversion of every sample of the buffer.
C18_SamplesScaledInterleaved ==
  wavStage = "file" =>
    \A p \in 1..wavBuf.length : \A c \in 1..wavBuf.numberOfChannels :
      wavFile.data[(p - 1) * wavBuf.numberOfChannels + c] = ClaimedSample(wavBuf.data[c][p])

\* C19: every 16-bit sample of the provider comes back, after decode and
\* export, as a value within 1 of it at the same place.
C19_RoundTripWithinOne ==
  (wavStage = "file" /\ wavRaw # <<>>) =>
    \A p \in 1..Len(wavRaw) :
      /\ wavFile.data[p] - wavRaw[p] <= 1
      /\ wavRaw[p] - wavFile.data[p] <= 1

\* A step in which a generate request settles with a new record.
GenerationSucceeds ==
  /\ pending.active
  /\ ~pending'.active
  /\ Len(history') = Len(history) + 1

\* C21: the step that completes a successful generation leaves the new
\* record as the Playing session: isPlaying is true, currentAudioId is the
\* new record's id, the slot holds a playing source of that record which is
\* the only source started or connected; the source that was in the slot
\* before the step (one the user started while the request was pending) is
\* stopped and disconnected.
C21_AutoPlayAfterGenerate ==
  [][GenerationSucceeds =>
       /\ isPlaying'
       /\ currentAudioId' = history'[1].id
       /\ sourceNodeRef' # NULL
       /\ sourceNodeRef' # sourceNodeRef
       /\ sources'[sourceNodeRef'].state = "playing"
       /\ sources'[sourceNodeRef'].item = history'[1].id
       /\ {s \in SrcIds : sources'[s].connected \/ sources'[s].state = "playing"} = {sourceNodeRef'}
       /\ sourceNodeRef # NULL =>
            /\ sources'[sourceNodeRef].state # "playing"
            /\ ~sources'[sourceNodeRef].connected]_vars

\* The first source of the newest record is playing in the slot, and the
\* completion that started it found a source playing, which the user had
\* started while the request was pending; that one is stopped and disconnected.
C21_Witness ==
  /\ history # <<>>
  /\ isPlaying
  /\ currentAudioId = history[1].id
  /\ \E s \in SrcIds :
       /\ sourceNodeRef = s
       /\ sources[s].state = "playing"
       /\ sources[s].item = history[1].id
       /\ \A s2 \in SrcIds : s2 # s => sources[s2].item # history[1].id
       /\ sources[s].prev # NULL
       /\ sources[sources[s].prev].state = "stopped"
       /\ ~sources[sources[s].prev].connected

\* A step in which a generate request is sent to the provider.
RequestAccepted == genCount' = genCount + 1

\* A step in which the outstanding request settles, either way.
RequestSettles == pending.active /\ ~pending'.active

\* C22: isGenerating is true exactly while a request is outstanding; a
\* request is accepted only when isGenerating is false and the input text
\* has a non-blank character, and accepting it sets isGenerating; between
\* acceptance and settling nothing clears isGenerating; the settling step,
\* success or failure, clears it; and every outstanding request settles, so
\* isGenerating always returns to false.
C22_OneGenerationOutstanding ==
  /\ [](isGenerating <=> pending.active)
  /\ [][RequestAccepted =>
          /\ ~isGenerating
          /\ ~pending.active
          /\ Trim(inputText) # ""
          /\ isGenerating'
          /\ pending'.active]_vars
  /\ [][(isGenerating /\ ~isGenerating') => RequestSettles]_vars
  /\ [][RequestSettles => ~isGenerating']_vars
  /\ (isGenerating ~> ~isGenerating)

\* A second request is outstanding after the first one failed.
C22_Witness ==
  /\ isGenerating
  /\ pending.active
  /\ genCount >= 2
  /\ history = <<>>

\* C23: in every reachable state at most one animation-frame callback of the
\* visualizer is pending, and a pending one is the frame animationRef names,
\* requested by a draw loop whose effect has a cleanup registered; the
\* cleanup (run before the effect runs again, and on unmount) cancels it, so
\* no frame of an earlier loop is left when a new loop begins.
C23_AtMostOneFramePending ==
  /\ Len(frames) <= 1
  /\ \A k \in 1..Len(frames) : frames[k].ref /\ vizCleanup
  /\ vizCleanup => cancelAnimationFrame(frames) = <<>>
  /\ \A a \in {NULL, analyserRef} : \A p \in BOOLEAN :
       Len(runEffect(frames, vizCleanup, a, p, ctxState).frames) <= 1

\* Playback has started and stopped on a running device: the effect ran
\* again at the stop, cancelled the pending frame of the playing loop and
\* began the loop whose frame is pending now.
C23_Witness ==
  /\ ~isPlaying
  /\ ctxState = "running"
  /\ Len(frames) = 1
  /\ ~frames[1].playing
  /\ \E s \in SrcIds : sources[s].state \in {"stopped", "ended"}

====
